---- MODULE Spec2Model ----
(***************************************************************************)
(* A model of DoubtEngine (src/doubt_engine_basic.py): the recursive       *)
(* driver doubt(), the ten rule functions it runs, the score and the       *)
(* insight selection.                                                      *)
(*                                                                         *)
(* Texts are TLA+ strings.  A confidence is kept in hundredths (0.7 is     *)
(* 70), and a doubt_score is the pair <<num, den>> standing for the        *)
(* rational num / (100 * den).  An insight is the record of the template   *)
(* the code returns and the values it substitutes into it.  Python's       *)
(* hash() is taken to be collision free, so the fingerprint of a text is   *)
(* the prefix that is hashed.                                              *)
(***************************************************************************)
EXTENDS Integers, Sequences, FiniteSets, TLC

(***************************************************************************)
(* String helpers: what the Python str methods used by the rules compute.  *)
(***************************************************************************)

Min(a, b) == IF a <= b THEN a ELSE b

\* text[:n]
Prefix(text, n) == SubSeq(text, 1, Min(Len(text), n))

\* pat in text
Contains(text, pat) ==
    \E i \in 1..(Len(text) - Len(pat) + 1) : SubSeq(text, i, i + Len(pat) - 1) = pat

\* text.count(pat): occurrences that do not overlap, scanning from the left
Count(text, pat) ==
    LET matches == {i \in 1..(Len(text) - Len(pat) + 1) :
                        SubSeq(text, i, i + Len(pat) - 1) = pat}
        \* the occurrences counted from position i on
        from[i \in 1..(Len(text) + 1)] ==
            LET ahead == {m \in matches : m >= i}
            IN  IF ahead = {} THEN 0
                ELSE LET m == CHOOSE x \in ahead : \A y \in ahead : x <= y
                     IN  1 + from[m + Len(pat)]
    IN  from[1]

UpperCase == "ABCDEFGHIJKLMNOPQRSTUVWXYZ"
LowerCase == "abcdefghijklmnopqrstuvwxyz"

LowerChar(c) ==
    IF \E i \in 1..Len(UpperCase) : SubSeq(UpperCase, i, i) = c
    THEN LET i == CHOOSE j \in 1..Len(UpperCase) : SubSeq(UpperCase, j, j) = c
         IN  SubSeq(LowerCase, i, i)
    ELSE c

\* text.lower(): the lowered halves of text[lo..hi], joined
Lower(text) ==
    LET part[lo \in 1..(Len(text) + 1), hi \in 0..Len(text)] ==
            IF lo > hi THEN ""
            ELSE IF lo = hi THEN LowerChar(SubSeq(text, lo, lo))
            ELSE part[lo, (lo + hi) \div 2] \o part[(lo + hi) \div 2 + 1, hi]
    IN  part[1, Len(text)]

IsSpace(c) == c \in {" ", "\t", "\n", "\r"}

IsDigit(c) == Contains("0123456789", c)

\* text.split(): the maximal runs of characters that are not whitespace, in order
Split(text) ==
    LET space == [i \in 1..Len(text) |-> IsSpace(SubSeq(text, i, i))]
        starts == {i \in 1..Len(text) : ~space[i] /\ (i = 1 \/ space[i - 1])}
        ends == {i \in 1..Len(text) : ~space[i] /\ (i = Len(text) \/ space[i + 1])}
        \* the k-th smallest member of set
        kth(set, k) == CHOOSE m \in set : Cardinality({y \in set : y <= m}) = k
    IN  [k \in 1..Cardinality(starts) |-> SubSeq(text, kth(starts, k), kth(ends, k))]

\* sum(1 for w in words if w in text)
CountPresent(words, text) == Cardinality({i \in 1..Len(words) : Contains(text, words[i])})

\* any(w in text for w in words)
AnyPresent(words, text) == \E i \in 1..Len(words) : Contains(text, words[i])

(***************************************************************************)
(* Doubt and DoubtResult                                                   *)
(***************************************************************************)

Doubt(category, question, confidence) ==
    [category |-> category, question |-> question, confidence |-> confidence]

DoubtResult(original, doubts, doubt_score, insight, depth) ==
    [original |-> original, doubts |-> doubts, doubt_score |-> doubt_score,
     insight |-> insight, depth |-> depth]

\* if cond: doubts.append(d)
When(cond, d) == IF cond THEN <<d>> ELSE <<>>

(***************************************************************************)
(* The rule set: one operator per _doubt_* method, each from the text to   *)
(* the sequence of doubts the method returns.                              *)
(***************************************************************************)

absolutes ==
    <<"always", "never", "all", "none", "every", "impossible", "proven",
      "definitely", "certainly">>

doubt_truth(text) ==
    LET lower == Lower(text)
        excluded == AnyPresent(<<"i always", "we always", "always doubt",
                                 "always question">>, lower)
        found == SelectSeq(absolutes,
                           LAMBDA word : Contains(lower, Lower(word)) /\ ~excluded)
    IN  [i \in 1..Len(found) |->
            Doubt("truth", "Is '" \o found[i] \o "' accurate? Can we verify this?", 70)]
        \o When(/\ Contains(lower, "is")
                /\ ~Contains(lower, "because")
                /\ ~Contains(lower, "evidence")
                /\ Len(text) > 50,
                Doubt("truth", "Is this claim supported by evidence?", 50))

vague == <<"maybe", "perhaps", "might", "could", "possibly", "somewhat", "kind of">>

doubt_completeness(text) ==
    LET lower == Lower(text)
    IN  When(/\ Contains(text, "?")
             /\ ~Contains(lower, "because")
             /\ ~Contains(lower, "explain"),
             Doubt("completeness", "Is there missing context or information?", 40))
        \o When(CountPresent(vague, lower) > 2,
                Doubt("completeness",
                      "Are there too many uncertainties? What would make this more certain?",
                      60))
        \* count < len(text.split()) / 20, a true division
        \o When(20 * (Count(text, ".") + Count(text, "!") + Count(text, "?"))
                    < Len(Split(text)),
                Doubt("completeness",
                      "Is this statement complete? Are there missing parts?", 50))

assumption_indicators ==
    <<"obviously", "clearly", "of course", "naturally", "everyone knows",
      "it goes without saying">>

doubt_assumptions(text) ==
    LET lower == Lower(text)
        found == SelectSeq(assumption_indicators,
                           LAMBDA indicator : Contains(lower, indicator))
    IN  [i \in 1..Len(found) |->
            Doubt("assumptions",
                  "What assumption is hidden behind '" \o found[i] \o "'?", 60)]
        \o When(Contains(lower, "should") \/ Contains(lower, "must"),
                Doubt("assumptions", "What values or norms are being assumed here?", 50))

emotional ==
    <<"amazing", "terrible", "horrible", "fantastic", "awful", "brilliant",
      "stupid", "idiotic">>

loaded == <<"obviously wrong", "clearly false", "proven fact", "undeniable">>

doubt_bias(text) ==
    LET lower == Lower(text)
        found == SelectSeq(loaded, LAMBDA term : Contains(lower, term))
    IN  When(CountPresent(emotional, lower) > 1,
             Doubt("bias", "Is emotional language affecting objectivity?", 60))
        \o [i \in 1..Len(found) |->
               Doubt("bias",
                     "Is '" \o found[i] \o "' a loaded term that assumes a conclusion?",
                     70)]
        \o When(AnyPresent(<<"they always", "they never", "we know",
                             "they don't understand">>, lower),
                Doubt("bias",
                      "Is there an 'us vs them' framing that might introduce bias?", 50))

contradiction_pairs ==
    << <<"always", "sometimes">>, <<"never", "sometimes">>, <<"all", "some">>,
       <<"none", "some">>, <<"proven", "might">>, <<"certain", "uncertain">> >>

doubt_logical_consistency(text) ==
    LET text_lower == Lower(text)
        found == SelectSeq(contradiction_pairs,
                           LAMBDA pair : /\ Contains(text_lower, pair[1])
                                         /\ Contains(text_lower, pair[2]))
    IN  [i \in 1..Len(found) |->
            Doubt("logical_consistency",
                  "Is there a contradiction between '" \o found[i][1]
                      \o "' and '" \o found[i][2] \o "'?",
                  80)]
        \o When(Contains(text_lower, "because") /\ Count(text, "because") > 1,
                Doubt("logical_consistency", "Is there potential circular reasoning?", 50))

evidence_indicators ==
    <<"study", "research", "data", "evidence", "proof", "shows", "demonstrates",
      "according to">>

factual_indicators == <<"is", "are", "was", "were", "fact", "true", "real">>

doubt_evidence(text) ==
    LET lower == Lower(text)
        has_evidence == AnyPresent(evidence_indicators, lower)
        has_factual_claim == AnyPresent(factual_indicators, lower)
    IN  When(has_factual_claim /\ ~has_evidence /\ Len(text) > 30,
             Doubt("evidence", "Is there sufficient evidence to support this claim?", 60))
        \o When(/\ \E i \in 1..Len(text) : IsDigit(SubSeq(text, i, i))
                /\ Contains(text, "%")
                /\ ~Contains(lower, "study")
                /\ ~Contains(lower, "research"),
                Doubt("evidence",
                      "Where does this statistic come from? Is the source reliable?", 70))

pronouns == <<"it", "this", "that", "they", "them", "these", "those">>

technical_terms == <<"algorithm", "neural", "quantum", "consciousness", "substrate">>

doubt_context(text) ==
    LET lower == Lower(text)
        words == Split(lower)
        \* sum(1 for word in pronouns if word in text.lower().split())
        pronoun_count ==
            Cardinality({i \in 1..Len(pronouns) :
                            \E j \in 1..Len(words) : words[j] = pronouns[i]})
    IN  When(pronoun_count > 3 /\ Len(Split(text)) < 50,
             Doubt("context", "Are pronouns clear? Is the context sufficient?", 50))
        \o When(/\ CountPresent(technical_terms, lower) > 2
                /\ ~Contains(lower, "define")
                /\ ~Contains(lower, "mean"),
                Doubt("context",
                      "Are technical terms explained? Is the context clear for all readers?",
                      40))

time_indicators == <<"now", "currently", "recently", "always", "never", "forever">>

doubt_temporal(text) ==
    LET lower == Lower(text)
    IN  IF CountPresent(time_indicators, lower) > 0
        THEN IF Contains(lower, "always") \/ Contains(lower, "never")
             THEN <<Doubt("temporal",
                          "Is this claim valid across all time? Could circumstances change?",
                          60)>>
             ELSE When(Contains(lower, "now") \/ Contains(lower, "currently"),
                       Doubt("temporal", "Is this still true? Has the situation changed?", 40))
        ELSE <<>>

generalization_indicators ==
    <<"all", "every", "everyone", "nobody", "nothing", "everything">>

doubt_scope(text) ==
    LET lower == Lower(text)
        negated == AnyPresent(<<"not all", "not every", "not everyone">>, lower)
        found == SelectSeq(generalization_indicators,
                           LAMBDA indicator : Contains(lower, indicator) /\ ~negated)
    IN  [i \in 1..Len(found) |->
            Doubt("scope",
                  "Does '" \o found[i] \o "' apply universally? Are there exceptions?",
                  70)]
        \o When(Contains(lower, "and") /\ Count(text, "and") > 3,
                Doubt("scope",
                      "Is this trying to cover too much? Should it be more focused?", 40))

\* A faulty variant: the input itself is not doubted, only the doubts are.
doubt_self_recursive_only(text, depth) ==
    IF depth >= 1
    THEN <<Doubt("self-awareness",
                 "Can I question my own questions? Is this recursive doubt?", 90),
           Doubt("self-awareness",
                 "If I can doubt my doubts, what does this reveal about my capabilities?",
                 85)>>
    ELSE <<>>

doubt_self(text, depth) ==
    IF depth = 0
    THEN <<Doubt("self-awareness", "Can I question this? Am I capable of doubt?", 80)>>
    ELSE IF depth >= 1
    THEN <<Doubt("self-awareness",
                 "Can I question my own questions? Is this recursive doubt?", 90),
           Doubt("self-awareness",
                 "If I can doubt my doubts, what does this reveal about my capabilities?",
                 85)>>
    ELSE <<>>

\* The nine extend() calls of doubt() whose rule reads the text alone, in
\* their order.
PatternRules(text) ==
    doubt_truth(text) \o doubt_completeness(text) \o doubt_assumptions(text)
    \o doubt_bias(text) \o doubt_logical_consistency(text) \o doubt_evidence(text)
    \o doubt_context(text) \o doubt_temporal(text) \o doubt_scope(text)


(***************************************************************************)
(* Bounds and inputs                                                       *)
(***************************************************************************)

\* max_depth is drawn from 0..MaxDepth, the depth of a top-level call from
\* 0..MaxDepth + 1.
MaxDepth == 3

\* doubts[:5]
FanOut == 5

\* text[:100]
FingerprintLen == 100

\* text[:10000]
MaxTextLen == 10000

LongPrefix ==
    "The committee met on Tuesday afternoon to go through the quarterly budget of the northern office in "

\* Two texts that differ only after their first FingerprintLen characters.
LongText == LongPrefix \o "full"
LongTwin == LongPrefix \o "part"

Inputs ==
    {"",
     "Good day.",
     "Experts always agree.",
     "Obviously all experts must always agree; never doubt proven facts.",
     "Can I question this? Am I capable of doubt?",
     LongText}

(***************************************************************************)
(* doubt(): the pieces of one invocation                                   *)
(***************************************************************************)

\* if len(text) > 10000: text = text[:10000]
Truncate(text) == IF Len(text) > MaxTextLen THEN Prefix(text, MaxTextLen) ELSE text

\* hash(text[:100])
Fingerprint(text) == Prefix(text, FingerprintLen)

Questions(doubts) == {doubts[i].question : i \in 1..Len(doubts)}

SelfQuestions == Questions(doubt_self("", 0)) \cup Questions(doubt_self("", 1))

\* The questions the engine asks about the texts of a set.
Asked(texts) ==
    {Truncate(q) : q \in SelfQuestions \cup UNION {Questions(PatternRules(t)) : t \in texts}}

\* The texts a call tree that starts from one of Inputs analyses: the inputs,
\* the questions asked about them, and the questions asked about those.  The
\* questions asked about these are among them again.
Texts ==
    LET level0 == {Truncate(x) : x \in Inputs}
        level1 == level0 \cup Asked(level0)
    IN  level1 \cup Asked(level1)

\* What PatternRules returns on each of them, worked out once.
Findings == [t \in Texts |-> PatternRules(t)]

\* The ten extend() calls of doubt(), in their order.
RunRules(text, depth) == Findings[text] \o doubt_self(text, depth)

\* A faulty variant: the guard lets depth == max_depth through.
DepthExceededStrict(depth, limit) == depth > limit

\* depth >= self.max_depth
DepthExceeded(depth, limit) == depth >= limit

\* A faulty variant: the recursive call is made at the depth of its caller.
ChildDepthSame(depth) == depth

\* depth + 1, the depth argument of a recursive call
ChildDepth(depth) == depth + 1

\* A faulty variant: the recursion goes one level further, to the limit.
ShouldRecurseToLimit(depth, limit, doubts) == depth < limit /\ doubts # <<>>

\* depth < self.max_depth - 1 and doubts
ShouldRecurse(depth, limit, doubts) == depth < limit - 1 /\ doubts # <<>>

\* A faulty variant: the slice is missing and every doubt is recursed on.
SelectedAll(doubts) == doubts

\* doubts[:5]
Selected(doubts) == SubSeq(doubts, 1, Min(Len(doubts), FanOut))

\* A faulty variant: the doubts of the recursive calls are put in front.
MergeInFront(doubts, recursive_doubts) == recursive_doubts \o doubts

\* doubts.extend(recursive_doubts)
Merge(doubts, recursive_doubts) == doubts \o recursive_doubts

\* sum(d.confidence for d in doubts), in hundredths: the sums of the
\* halves of doubts[lo..hi], added
SumConfidence(doubts) ==
    LET part[lo \in 1..(Len(doubts) + 1), hi \in 0..Len(doubts)] ==
            IF lo > hi THEN 0
            ELSE IF lo = hi THEN doubts[lo].confidence
            ELSE part[lo, (lo + hi) \div 2] + part[(lo + hi) \div 2 + 1, hi]
    IN  part[1, Len(doubts)]

\* A faulty variant: the score grows with the number of doubts, a tenth each.
ScoreByCount(doubts) ==
    IF doubts # <<>> THEN <<Min(10 * Len(doubts), 100), 1>> ELSE <<0, 1>>

\* The doubt score <<num, den>>, which stands for num / (100 * den).
Score(doubts) ==
    IF doubts # <<>>
    THEN LET total == SumConfidence(doubts)
             n == Len(doubts)
         IN  IF total > 100 * n THEN <<100, 1>> ELSE <<total, n>>   \* min(doubt_score, 1.0)
    ELSE <<0, 1>>

\* An f-string: the template and the values formatted into it.
Insight(template, args) == [template |-> template, args |-> args]

\* f"{total / n:.2f}" for a total in hundredths: the mean in hundredths,
\* rounded to the nearest (a mean exactly halfway is rounded up here; in the
\* code the rounding error of the float sum decides it).
Format2f(total, n) == (2 * total + n) \div (2 * n)

AlreadyDoubtedInsight == Insight("Already doubted this text (preventing infinite loop)", <<>>)
DepthLimitInsight == Insight("Recursion depth limit reached (safety)", <<>>)
NoDoubtsInsight ==
    Insight("No doubts found. Is this because the statement is perfect, or because I'm not doubting enough?",
            <<>>)
NoFurtherInsight ==
    Insight("No further doubts. This suggests the previous doubts were valid, or I've reached a stable state.",
            <<>>)
RecursiveInsight(recursive, total, avg) ==
    Insight("I can doubt my own doubts (found {len(recursive_doubts)} recursive doubts). This demonstrates recursive doubt-validation. I found {total_doubts} total doubts with average confidence {avg_confidence:.2f}. If I can question my own questions, this suggests meta-cognitive capability.",
            <<recursive, total, avg>>)
CanQuestionInsight(total) ==
    Insight("I can question this ({total_doubts} doubts found). But can I question my questions? That would demonstrate recursive doubt.",
            <<total>>)
ComprehensiveInsight(count, categories) ==
    Insight("I found {doubt_count} doubts across {len(category_counts)} categories. This shows comprehensive critical thinking capability.",
            <<count, categories>>)
CriticalInsight(count) ==
    Insight("I found {doubt_count} doubts. This demonstrates the ability to question, analyze, and think critically.",
            <<count>>)
CapableInsight(count) ==
    Insight("I found {doubt_count} doubts. I'm capable of questioning and critical thinking.",
            <<count>>)
FocusedInsight(high) ==
    Insight("I found {len(high_confidence_doubts)} high-confidence doubts. This shows focused critical analysis.",
            <<high>>)
BeginningInsight(count) ==
    Insight("I found {doubt_count} doubt(s). I can question things. This is the beginning of critical thinking.",
            <<count>>)

generate_insight(doubts, depth, original_text) ==
    IF doubts = <<>>
    THEN IF depth = 0 THEN NoDoubtsInsight ELSE NoFurtherInsight
    ELSE
      LET category_counts == {doubts[i].category : i \in 1..Len(doubts)}
          recursive_doubts ==
              SelectSeq(doubts, LAMBDA d : d.category = "self-awareness" /\ depth >= 1)
          total_doubts == Len(doubts)
          avg_confidence == Format2f(SumConfidence(doubts), Len(doubts))
          doubt_count_ == Len(doubts)
          high_confidence_doubts == SelectSeq(doubts, LAMBDA d : d.confidence >= 70)
      IN  IF recursive_doubts # <<>>
          THEN IF depth >= 1
               THEN RecursiveInsight(Len(recursive_doubts), total_doubts, avg_confidence)
               ELSE CanQuestionInsight(total_doubts)
          ELSE IF doubt_count_ >= 8
               THEN ComprehensiveInsight(doubt_count_, Cardinality(category_counts))
          ELSE IF doubt_count_ >= 5 THEN CriticalInsight(doubt_count_)
          ELSE IF doubt_count_ >= 3 THEN CapableInsight(doubt_count_)
          ELSE IF high_confidence_doubts # <<>>
               THEN FocusedInsight(Len(high_confidence_doubts))
          ELSE BeginningInsight(doubt_count_)

\* The result of the cycle guard.
AlreadyDoubted(text, depth) == DoubtResult(text, <<>>, <<0, 1>>, AlreadyDoubtedInsight, depth)

\* The result of the depth guard.
DepthLimit(text, depth) == DoubtResult(text, <<>>, <<0, 1>>, DepthLimitInsight, depth)

\* The result of an invocation that ran the rules.
Analysed(text, depth, doubts) ==
    DoubtResult(text, doubts, Score(doubts), generate_insight(doubts, depth, text), depth)

\* doubt(text) on an engine with max_depth == limit, read as a function: what
\* the body returns from its arguments alone, each recursive call receiving
\* the set of its caller by value.  Nothing of the engine but the limit is read.
FreshResult(text, limit) ==
    LET Fingerprints == {Fingerprint(t) : t \in Texts}
        run[t \in Texts, depth \in 0..(limit + 1), visited \in SUBSET Fingerprints] ==
            IF Fingerprint(t) \in visited THEN AlreadyDoubted(t, depth)
            ELSE IF DepthExceeded(depth, limit) THEN DepthLimit(t, depth)
            ELSE
              LET doubts == RunRules(t, depth)
                  todo == IF ShouldRecurse(depth, limit, doubts)
                          THEN Selected(doubts) ELSE <<>>
                  passed == visited \cup {Fingerprint(t)}
                  recursive_doubts[i \in 0..Len(todo)] ==
                      IF i = 0 THEN <<>>
                      ELSE recursive_doubts[i - 1]
                           \o run[Truncate(todo[i].question), ChildDepth(depth), passed].doubts
              IN  Analysed(t, depth, Merge(doubts, recursive_doubts[Len(todo)]))
    IN  run[Truncate(text), 0, {}]


(***************************************************************************)
(* The engine and the call stack                                           *)
(*                                                                         *)
(* doubt() calls itself, so one top-level call is a tree of invocations.   *)
(* stack holds the frames of the invocations in progress, the innermost    *)
(* last.  A Python set is an object that callers and callees may share:    *)
(* heap holds the set objects and a frame holds the index of its visited   *)
(* set.  The fields visited_in and children of a frame, and the variables  *)
(* top, count0 and analysed, record history and influence nothing.         *)
(***************************************************************************)

VARIABLES
    max_depth,      \* self.max_depth
    doubt_count,    \* self.doubt_count
    stack,          \* the frames of the invocations of doubt() in progress
    heap,           \* the set objects: heap[r] is the content of object r
    ret,            \* the invocation that returned last, with its DoubtResult
    top,            \* the arguments of the top-level call
    calls,          \* the number of top-level calls made on this engine
    count0,         \* doubt_count when the top-level call was made
    analysed,       \* the fingerprints the rules have run on in this call tree
    first           \* text :> result of the first top-level call on this engine

vars == <<max_depth, doubt_count, stack, heap, ret, top, calls, count0, analysed, first>>

\* An optional argument is <<>> when it is None and <<value>> otherwise.
None == <<>>
Some(value) == <<value>>

NoReturn == [via |-> "none"]
NoCall == [made |-> FALSE]

\* A frame of doubt() at the cycle guard.
Frame(text, depth, visited, content) ==
    [text |-> text, depth |-> depth, visited |-> visited, pc |-> "guards",
     doubts |-> <<>>, todo |-> <<>>, i |-> 1, recursive_doubts |-> <<>>,
     visited_in |-> content, count_in |-> doubt_count, children |-> <<>>,
     repeat |-> FALSE]

Top == stack[Len(stack)]

\* A faulty variant: visited is passed on as it is, the same object.
CopyNothing(h, r) == [heap |-> h, ref |-> r]

\* visited.copy(): a new object with the content of object r
Copy(h, r) == [heap |-> Append(h, h[r]), ref |-> Len(h) + 1]

\* A faulty variant: the set is a default argument, made once and shared by
\* every call that passes no visited.
NewSetOnce(h) ==
    IF h = <<>> THEN [heap |-> <<{}>>, ref |-> 1] ELSE [heap |-> h, ref |-> 1]

\* visited = set(): a new, empty object
NewSet(h) == [heap |-> Append(h, {}), ref |-> Len(h) + 1]

\* A faulty variant: the fingerprint is never recorded.
AddNothing(h, r, x) == h

\* visited.add(text_hash)
Add(h, r, x) == [h EXCEPT ![r] = @ \cup {x}]

Init ==
    /\ max_depth \in 0..MaxDepth      \* DoubtEngine(max_depth)
    /\ doubt_count = 0
    /\ stack = <<>>
    /\ heap = <<>>
    /\ ret = NoReturn
    /\ top = NoCall
    /\ calls = 0
    /\ count0 = 0
    /\ analysed = {}
    /\ first = <<>>

\* A faulty variant: "if not visited", which an empty set satisfies as well.
IsFalsy(supplied) == supplied = None \/ supplied = Some({})

\* visited is None
IsNone(supplied) == supplied = None

\* The caller invokes doubt(text, depth, visited): visited is None or a set
\* object of the caller's with the content supplied.  top.ref is the caller's
\* object (0 when there is none).
Invoke(text, depth, supplied) ==
    LET t == Truncate(text)
        \* the heap with the caller's object in it, when one is passed
        given == IF supplied = None THEN heap ELSE Append(heap, supplied[1])
        \* if visited is None: visited = set()
        made == IF IsNone(supplied) THEN NewSet(given)
                ELSE [heap |-> given, ref |-> Len(given)]
    IN  /\ stack = <<>>
        /\ stack' = <<Frame(t, depth, made.ref, made.heap[made.ref])>>
        /\ heap' = made.heap
        /\ top' = [made |-> TRUE, text |-> text, depth |-> depth, visited |-> supplied,
                   ref |-> IF supplied = None THEN 0 ELSE Len(given)]
        /\ calls' = calls + 1
        /\ count0' = doubt_count
        /\ analysed' = {}
        /\ ret' = NoReturn
        /\ UNCHANGED <<max_depth, doubt_count>>

\* The sets a caller passes as visited: empty, holding the fingerprint of the
\* text itself, of a question the engine asks, or of a text with the same
\* first FingerprintLen characters.
SuppliedSets(text) ==
    {{}, {Fingerprint(text)}, {Fingerprint(LongTwin)},
     {Fingerprint("Can I question my own questions? Is this recursive doubt?")}}

\* A top-level call with any arguments, on a new engine.
Call ==
    /\ calls = 0
    /\ \E text \in Inputs, depth \in 0..(MaxDepth + 1) :
         \E visited \in {None} \cup {Some(set) : set \in SuppliedSets(text)} :
            Invoke(text, depth, visited)
    /\ UNCHANGED first

\* The innermost frame returns result: to the frame below it, which extends
\* its recursive_doubts and goes on with its loop, or to the caller.
Return(result, via) ==
    LET f == Top
        n == Len(stack) - 1
        done == [via |-> via, result |-> result, text |-> f.text, depth |-> f.depth,
                 level |-> Len(stack), visited_in |-> f.visited_in,
                 visited_out |-> heap'[f.visited],
                 count_in |-> f.count_in, count_out |-> doubt_count,
                 own |-> f.doubts, children |-> f.children, repeat |-> f.repeat,
                 ancestors |-> {Fingerprint(stack[k].text) : k \in 1..n}]
    IN  /\ ret' = done
        /\ stack' =
             IF n = 0 THEN <<>>
             ELSE [SubSeq(stack, 1, n) EXCEPT
                     ![n].recursive_doubts = @ \o result.doubts,
                     ![n].i = @ + 1,
                     ![n].children = Append(@, [text |-> f.text, depth |-> f.depth,
                                                doubts |-> result.doubts])]
        /\ first' = IF n = 0 /\ calls = 1 THEN (top.text :> result) ELSE first

\* if text_hash in visited: return DoubtResult(...)
ReturnAlreadyDoubted ==
    /\ stack # <<>>
    /\ Top.pc = "guards"
    /\ Fingerprint(Top.text) \in heap[Top.visited]
    /\ heap' = heap
    /\ Return(AlreadyDoubted(Top.text, Top.depth), "cycle")
    /\ UNCHANGED <<max_depth, doubt_count, top, calls, count0, analysed>>

\* visited.add(text_hash); if depth >= self.max_depth: return DoubtResult(...)
ReturnDepthLimit ==
    /\ stack # <<>>
    /\ Top.pc = "guards"
    /\ Fingerprint(Top.text) \notin heap[Top.visited]
    /\ DepthExceeded(Top.depth, max_depth)
    /\ heap' = Add(heap, Top.visited, Fingerprint(Top.text))
    /\ Return(DepthLimit(Top.text, Top.depth), "limit")
    /\ UNCHANGED <<max_depth, doubt_count, top, calls, count0, analysed>>

\* Both guards passed: count the invocation, run the rules and choose the
\* doubts to recurse on.
Analyse ==
    /\ stack # <<>>
    /\ Top.pc = "guards"
    /\ Fingerprint(Top.text) \notin heap[Top.visited]
    /\ ~DepthExceeded(Top.depth, max_depth)
    /\ heap' = Add(heap, Top.visited, Fingerprint(Top.text))
    /\ doubt_count' = doubt_count + 1
    /\ LET doubts == RunRules(Top.text, Top.depth)
       IN  stack' = [stack EXCEPT
                       ![Len(stack)].pc = "loop",
                       ![Len(stack)].doubts = doubts,
                       ![Len(stack)].todo =
                           IF ShouldRecurse(Top.depth, max_depth, doubts)
                           THEN Selected(doubts) ELSE <<>>,
                       ![Len(stack)].repeat = Fingerprint(Top.text) \in analysed]
    /\ analysed' = analysed \cup {Fingerprint(Top.text)}
    /\ UNCHANGED <<max_depth, ret, top, calls, count0, first>>

\* recursive_result = self.doubt(doubt.question, depth + 1, visited.copy())
Recurse ==
    /\ stack # <<>>
    /\ Top.pc = "loop"
    /\ Top.i <= Len(Top.todo)
    /\ LET copy == Copy(heap, Top.visited)
       IN  /\ heap' = copy.heap
           /\ stack' = Append(stack,
                              Frame(Truncate(Top.todo[Top.i].question), ChildDepth(Top.depth),
                                    copy.ref, copy.heap[copy.ref]))
    /\ UNCHANGED <<max_depth, doubt_count, ret, top, calls, count0, analysed, first>>

\* The loop is over (or was not entered): merge, score, insight, return.
Finish ==
    /\ stack # <<>>
    /\ Top.pc = "loop"
    /\ Top.i > Len(Top.todo)
    /\ heap' = heap
    /\ Return(Analysed(Top.text, Top.depth, Merge(Top.doubts, Top.recursive_doubts)),
              "rules")
    /\ UNCHANGED <<max_depth, doubt_count, top, calls, count0, analysed>>

\* One top-level call, with any arguments, on a new engine.
Next == Call \/ ReturnAlreadyDoubted \/ ReturnDepthLimit \/ Analyse \/ Recurse \/ Finish

Spec == Init /\ [][Next]_vars

\* The program is sequential and takes its next step whenever it has one.
FairSpec == Spec /\ WF_vars(Next)

\* Up to MaxCalls top-level calls doubt(text), one after the other, on one engine.
MaxCalls == 3

SeqInputs == {"", "Experts always agree."}

CallAgain ==
    /\ calls < MaxCalls
    /\ \E text \in SeqInputs : Invoke(text, 0, None)
    /\ UNCHANGED first

NextSeq ==
    CallAgain \/ ReturnAlreadyDoubted \/ ReturnDepthLimit \/ Analyse \/ Recurse \/ Finish

SpecSeq == Init /\ [][NextSeq]_vars

\* After a call doubt(text, depth, S) has returned, the caller makes the same
\* call again, with the same set object S.
CallSameSet ==
    /\ calls = 1
    /\ stack = <<>>
    /\ ret # NoReturn
    /\ top.visited # None
    /\ LET supplied == Some(heap[top.ref])
           \* if visited is None: visited = set()
           made == IF IsNone(supplied) THEN NewSet(heap)
                   ELSE [heap |-> heap, ref |-> top.ref]
       IN  /\ stack' = <<Frame(Truncate(top.text), top.depth, made.ref,
                               made.heap[made.ref])>>
           /\ heap' = made.heap
           /\ top' = [top EXCEPT !.visited = supplied]
    /\ calls' = calls + 1
    /\ count0' = doubt_count
    /\ analysed' = {}
    /\ ret' = NoReturn
    /\ UNCHANGED <<max_depth, doubt_count, first>>

NextTwice ==
    \/ Call \/ CallSameSet
    \/ ReturnAlreadyDoubted \/ ReturnDepthLimit \/ Analyse \/ Recurse \/ Finish

SpecTwice == Init /\ [][NextTwice]_vars


(***************************************************************************)
(* Properties                                                              *)
(***************************************************************************)

Max(a, b) == IF a >= b THEN a ELSE b

\* ret holds an invocation that has returned.
Returned == ret.via # "none"

Empty(result) == result.doubts = <<>> /\ result.doubt_score = <<0, 1>>

\* C1, as claimed: an invocation with depth == max_depth returns empty doubts,
\* score 0.0 and the depth-limit insight, whatever its visited set holds.
C1_AlwaysDepthLimit ==
    (Returned /\ ret.depth = max_depth)
        => (Empty(ret.result) /\ ret.result.insight = DepthLimitInsight)

\* C1, amended: an invocation with depth == max_depth returns empty doubts and
\* score 0.0; its insight is the depth-limit insight unless the fingerprint of
\* its text is already in visited, and then it is the already-doubted insight
\* of the cycle guard, which is checked first.
C1_DepthLimit ==
    (Returned /\ ret.depth = max_depth)
        => /\ Empty(ret.result)
           /\ ret.result.insight =
                 IF Fingerprint(ret.text) \in ret.visited_in
                 THEN AlreadyDoubtedInsight ELSE DepthLimitInsight

\* A call with depth == max_depth >= 1 and a visited set that is not empty has
\* returned through the depth guard.
C1_Witness ==
    /\ Returned /\ ret.depth = max_depth /\ max_depth >= 1
    /\ ret.visited_in # {}
    /\ ret.via = "limit"

\* C2: a recursive invocation whose text has the fingerprint of one of its
\* ancestors returns at once with empty doubts, score 0.0 and the
\* already-doubted insight: it runs no rule and makes no recursive call.
C2_CycleGuard ==
    (Returned /\ ret.level > 1 /\ Fingerprint(ret.text) \in ret.ancestors)
        => /\ ret.via = "cycle"
           /\ Empty(ret.result)
           /\ ret.result.insight = AlreadyDoubtedInsight
           /\ ret.own = <<>> /\ ret.children = <<>>
           /\ ret.count_out = ret.count_in

\* A recursive invocation on the question its parent was called on has returned.
C2_Witness ==
    /\ Returned /\ ret.level > 2
    /\ Fingerprint(ret.text) = Fingerprint(stack[Len(stack)].text)

\* C3, as claimed: no result has a depth greater than max_depth, each child is
\* called with its parent's depth + 1, and a result's depth is the depth
\* argument of its invocation.
C3_NeverAboveMaxDepth ==
    /\ \A k \in 2..Len(stack) : stack[k].depth = stack[k - 1].depth + 1
    /\ Returned => (ret.result.depth = ret.depth /\ ret.result.depth <= max_depth)

\* C3, amended: no result has a depth greater than max_depth unless the
\* top-level call was itself made with a greater depth, which is then the
\* depth of its result (no result is deeper than the larger of max_depth and
\* the top-level depth); each child is called with its parent's depth + 1,
\* and a result's depth is the depth argument of its invocation.
C3_DepthBound ==
    /\ \A k \in 2..Len(stack) : stack[k].depth = stack[k - 1].depth + 1
    /\ Returned => /\ ret.result.depth = ret.depth
                   /\ ret.result.depth <= Max(max_depth, top.depth)
                   /\ top.depth <= max_depth => ret.result.depth <= max_depth

\* An invocation two levels below the top-level call has run the rules.
C3_Witness == Returned /\ ret.level = 3 /\ ret.via = "rules" /\ ret.depth = top.depth + 2

\* 1 + FanOut + ... + FanOut^(n - 1)
GeomSum(n) ==
    LET sum[k \in 0..Max(n, 0)] == IF k = 0 THEN 0 ELSE 1 + FanOut * sum[k - 1]
    IN  sum[Max(n, 0)]

\* A top-level call with depth 0 is in progress or has returned.
FromDepth0 == top.made /\ top.depth = 0

\* C4: a top-level call doubt(text, depth=0) terminates; none of its
\* invocations makes more than FanOut recursive calls, and while it runs
\* doubt_count grows by at most 1 + FanOut + ... + FanOut^(max_depth - 1).
C4_Terminates ==
    /\ [](FromDepth0 =>
            /\ doubt_count - count0 <= GeomSum(max_depth)
            /\ \A k \in 1..Len(stack) :
                  Len(stack[k].todo) <= FanOut /\ Len(stack[k].children) <= FanOut
            /\ Returned => Len(ret.children) <= FanOut)
    /\ (FromDepth0 /\ stack # <<>>) ~> (stack = <<>> /\ Returned)

\* A top-level call with depth 0 on an engine with max_depth 3 has returned:
\* it had more than FanOut findings of its own, recursed on FanOut of them,
\* and the rules ran more than 1 + FanOut times.
C4_Witness ==
    /\ FromDepth0 /\ stack = <<>> /\ Returned
    /\ max_depth = 3
    /\ Len(ret.own) > FanOut /\ Len(ret.children) = FanOut
    /\ doubt_count - count0 > 1 + FanOut

\* DoubtEngine(max_depth: int = 3)
DefaultMaxDepth == 3

\* The finding of _doubt_self at depth 0.
SelfDoubt == Doubt("self-awareness", "Can I question this? Am I capable of doubt?", 80)

\* doubt(text) with the default depth and visited, on an engine with the
\* default max_depth, has returned, and no pattern rule fires on text.
NoPatternDone ==
    /\ stack = <<>> /\ Returned
    /\ max_depth = DefaultMaxDepth
    /\ top.depth = 0 /\ top.visited = None
    /\ Findings[ret.text] = <<>>

\* C5, as claimed: with the default configuration, doubt("") and doubt of any
\* text on which no pattern rule fires returns doubts == [], doubt_score 0.0
\* and the depth-0 insight "No doubts found".
C5_NoDoubtsFound ==
    NoPatternDone => (Empty(ret.result) /\ ret.result.insight = NoDoubtsInsight)

\* C5, amended: with the default configuration, doubt("") and doubt of any
\* text on which no pattern rule fires returns a list of doubts that is not
\* empty: its only own finding, and first doubt, is the depth-0
\* self-awareness doubt (confidence 0.8), followed by the doubts merged from
\* the recursion on that doubt's question; doubt_score is greater than 0 and
\* the insight is not "No doubts found".  doubt("") returns 22 doubts with
\* doubt_score 14.95 / 22.
C5_SelfDoubtFound ==
    NoPatternDone =>
        /\ ret.own = <<SelfDoubt>>
        /\ ret.result.doubts # <<>> /\ ret.result.doubts[1] = SelfDoubt
        /\ Len(ret.children) = 1 /\ ret.children[1].text = SelfDoubt.question
        /\ ret.result.doubts = <<SelfDoubt>> \o ret.children[1].doubts
        /\ ret.result.doubt_score[1] > 0
        /\ ret.result.insight # NoDoubtsInsight
        /\ ret.text = "" =>
              Len(ret.result.doubts) = 22 /\ ret.result.doubt_score = <<1495, 22>>

\* doubt("") has returned on an engine with the default max_depth.
C5_Witness == NoPatternDone /\ top.text = "" /\ ret.via = "rules"

\* The self-awareness doubts of a list.
SelfAware(doubts) == SelectSeq(doubts, LAMBDA d : d.category = "self-awareness")

\* C6: when the doubts of a result hold a self-awareness doubt, the insight of
\* a depth-0 result is the depth-0 self-awareness message with the number of
\* doubts found, and the insight of a result at depth >= 1 is the recursive
\* message with the number of self-awareness doubts, the number of doubts and
\* the mean confidence.
C6_SelfAwarenessInsight ==
    (Returned /\ ret.via = "rules" /\ SelfAware(ret.result.doubts) # <<>>) =>
        ret.result.insight =
            IF ret.depth = 0
            THEN CanQuestionInsight(Len(ret.result.doubts))
            ELSE RecursiveInsight(Len(SelfAware(ret.result.doubts)),
                                  Len(ret.result.doubts),
                                  Format2f(SumConfidence(ret.result.doubts),
                                           Len(ret.result.doubts)))

\* The doubts of the results in children, in their order.
Flatten(children) ==
    LET upto[i \in 0..Len(children)] ==
            IF i = 0 THEN <<>> ELSE upto[i - 1] \o children[i].doubts
    IN  upto[Len(children)]

\* C7: in every result returned, 0.0 <= doubt_score <= 1.0; the score of an
\* empty list of doubts is 0.0; otherwise it is the mean of the confidences
\* of the doubts returned, which are the invocation's own findings and the
\* doubts of its recursive calls; and every confidence lies in [0, 1].
C7_ScoreIsMean ==
    Returned =>
        LET doubts == ret.result.doubts
            num == ret.result.doubt_score[1]
            den == ret.result.doubt_score[2]
        IN  /\ den > 0 /\ 0 <= num /\ num <= 100 * den
            /\ doubts = <<>> => num = 0
            /\ doubts # <<>> => num * Len(doubts) = SumConfidence(doubts) * den
            /\ Len(doubts) = Len(ret.own) + Len(Flatten(ret.children))
            /\ \A i \in 1..Len(ret.own) : doubts[i] = ret.own[i]
            /\ \A i \in 1..Len(doubts) :
                  doubts[i].confidence >= 0 /\ doubts[i].confidence <= 100

\* An invocation has returned own findings and merged doubts of differing
\* confidence.
C7_Witness ==
    /\ Returned /\ ret.own # <<>> /\ Flatten(ret.children) # <<>>
    /\ \E i, j \in 1..Len(ret.result.doubts) :
          ret.result.doubts[i].confidence # ret.result.doubts[j].confidence

\* The categories in the order of the extend() calls of doubt().
RuleOrder ==
    <<"truth", "completeness", "assumptions", "bias", "logical_consistency",
      "evidence", "context", "temporal", "scope", "self-awareness">>

RuleIndex(category) == CHOOSE k \in 1..Len(RuleOrder) : RuleOrder[k] = category

\* C8: an invocation at a depth below max_depth - 1 that passed both guards
\* and has n >= 1 findings of its own recursed on the questions of the first
\* min(FanOut, n) of them, in their order and at its depth + 1, and on
\* nothing else; the doubts it returns are its own findings, in the order of
\* the rules, followed by the doubts of its recursive calls in their order.
C8_RecursionOrder ==
    (Returned /\ ret.via = "rules" /\ ret.depth < max_depth - 1 /\ ret.own # <<>>) =>
        /\ Len(ret.children) = Min(FanOut, Len(ret.own))
        /\ \A i \in 1..Len(ret.children) :
              /\ ret.children[i].text = ret.own[i].question
              /\ ret.children[i].depth = ret.depth + 1
        /\ ret.result.doubts = ret.own \o Flatten(ret.children)
        /\ \A i, j \in 1..Len(ret.own) :
              i < j => RuleIndex(ret.own[i].category) <= RuleIndex(ret.own[j].category)

\* An invocation with more than FanOut findings of its own, of several rules,
\* has returned with doubts merged from more than one recursive call.
C8_Witness ==
    /\ Returned /\ ret.via = "rules" /\ ret.depth < max_depth - 1
    /\ Len(ret.own) > FanOut
    /\ ret.own[1].category # ret.own[Len(ret.own)].category
    /\ \E i, j \in 1..Len(ret.children) :
          i # j /\ ret.children[i].doubts # <<>> /\ ret.children[j].doubts # <<>>

\* The content of the visited set the caller passed to the top-level call.
Supplied == IF top.visited = None THEN {} ELSE top.visited[1]

\* Each recursive call in progress received its caller's incoming set plus
\* its caller's fingerprint, and the set of an invocation that passed the
\* guards holds what it received plus its own fingerprint, whatever its
\* recursive calls have added to theirs.
VisitedFlowsDown ==
    /\ \A k \in 2..Len(stack) :
          stack[k].visited_in =
              stack[k - 1].visited_in \cup {Fingerprint(stack[k - 1].text)}
    /\ \A k \in 1..Len(stack) :
          heap[stack[k].visited] =
              IF stack[k].pc = "loop"
              THEN stack[k].visited_in \cup {Fingerprint(stack[k].text)}
              ELSE stack[k].visited_in
    /\ (Returned /\ ret.via # "cycle") =>
          ret.visited_out = ret.visited_in \cup {Fingerprint(ret.text)}

\* C9, as claimed: visited sets flow down, never up or sideways, and a
\* recursive call is short-circuited by the cycle guard only when the
\* fingerprint of its text is that of an ancestor on its call chain.
C9_OnlyAncestors ==
    /\ VisitedFlowsDown
    /\ (Returned /\ ret.level > 1) =>
          (ret.via = "cycle" <=> Fingerprint(ret.text) \in ret.ancestors)

\* C9, amended: visited sets flow down, never up or sideways: each recursive
\* call receives its parent's incoming set plus the parent's fingerprint, and
\* what a recursive call adds is seen by neither its parent nor its siblings.
\* A recursive call is short-circuited by the cycle guard only when the
\* fingerprint of its text is that of an ancestor on its call chain or is in
\* the visited set the caller passed to the top-level call; otherwise the
\* same question in two sibling or cousin branches is analysed in both.
C9_AncestorsOrSupplied ==
    /\ VisitedFlowsDown
    /\ (Returned /\ ret.level > 1) =>
          /\ ret.visited_in = Supplied \cup ret.ancestors
          /\ ret.via = "cycle" <=> Fingerprint(ret.text) \in Supplied \cup ret.ancestors

\* A recursive call has run the rules on a question that another branch of
\* the same call tree had run them on before, while a caller's set was in use.
C9_Witness ==
    /\ Returned /\ ret.level > 2 /\ ret.via = "rules" /\ ret.repeat
    /\ Supplied # {}

\* C10: after any sequence of earlier calls on the engine, on the same text
\* or on others, doubt(text) returns what a new engine with the same
\* max_depth returns: the result is that of the first call made on the
\* engine, when that was on the same text, and is what the body of doubt()
\* yields from text and max_depth alone.
C10_FunctionOfText ==
    (stack = <<>> /\ Returned) =>
        /\ ret.result = FreshResult(top.text, max_depth)
        /\ top.text \in DOMAIN first => ret.result = first[top.text]

\* The third call on an engine, on the text of the first, has returned
\* doubts of its own and of its recursive calls, after a call on another text.
C10_Witness ==
    /\ stack = <<>> /\ Returned /\ calls = 3
    /\ top.text \in DOMAIN first
    /\ count0 > 0 /\ doubt_count > count0 + 1
    /\ \E k \in 1..Len(heap) : heap[k] \notin {{}, ret.visited_out}
    /\ Flatten(ret.children) # <<>>

C12_CallerSet ==
    (top.made /\ top.visited # None) =>
        LET before == top.visited[1]
            S == heap[top.ref]
            text_hash == Fingerprint(Truncate(top.text))
        IN  /\ S \subseteq before \cup {text_hash}
            /\ (stack = <<>> /\ Returned) =>
                  /\ text_hash \in before =>
                        /\ ret.via = "cycle"
                        /\ Empty(ret.result)
                        /\ ret.result.insight = AlreadyDoubtedInsight
                        /\ S = before
                  /\ text_hash \notin before =>
                        /\ ret.via \in {"rules", "limit"}
                        /\ S = before \cup {text_hash}
                        /\ \A x \in analysed \ (before \cup {text_hash}) : x \notin S
                  /\ calls = 2 =>
                        /\ ret.via = "cycle"
                        /\ Empty(ret.result)
                        /\ ret.result.insight = AlreadyDoubtedInsight
                        /\ doubt_count = count0

\* The second call with the set of a first call that ran the rules in
\* several invocations has returned: the set held one fingerprint before
\* the first call and holds two now.
C12_Witness ==
    /\ top.made /\ top.visited # None
    /\ stack = <<>> /\ Returned /\ calls = 2
    /\ doubt_count > 1
    /\ Cardinality(heap[top.ref]) = 2
    /\ ret.via = "cycle"

====
